---------------------------- MODULE Spec2Model ----------------------------
(***************************************************************************)
(* A model of setup-agda: the options resolver (src/opts.ts getOptions),   *)
(* the compatibility predicates (src/opts.ts supports...), and the binary  *)
(* distribution pipeline (src/setup-agda/bdist.ts download, upload).       *)
(*                                                                         *)
(* Strings are sequences of one-character strings, so that trimming,       *)
(* whitespace removal, template parsing and version parsing are computed   *)
(* on characters.  A JavaScript value handed in as an input is a record    *)
(* [type, str, bool] (undefined, a boolean or a string).                   *)
(***************************************************************************)
EXTENDS Integers, Sequences, FiniteSets, TLC

VARIABLES
  inputs,      \* getOptions: the argument `inputs`, as a lookup key -> raw JS value
  optPc,       \* getOptions: "idle" | "returned" | "thrown", or "fed" (called again
               \* with the record it returned)
  options,     \* the BuildOptions record (getOptions' local `options`)
  thrown,      \* the message of the Error an operation ended in, or NoError
  os,          \* opts.os, the detected platform
  osRelease,   \* node:os release()
  verdict,     \* the last compatibility predicate evaluated and its result
  pc,          \* download / upload: position in the async function
  binIdx,      \* upload: index into util.agdaBinNames of the running for-loop
  fsPending,   \* directories whose creation (util.mkdirP) has been started
  fsDirs,      \* directories that exist
  copied,      \* executables copied into the distribution directory
  upxExe,      \* upload: the local upxExe, or NoExe
  compressAttempts, \* executables handed to compressBin
  compressed,  \* executables UPX compressed successfully
  log,         \* calls of core.info / warning / debug / error, and of collaborators
  packageIndex,\* opts.packageIndex: the set of distribution names it has a URL for
  result       \* the value the async function resolved to, or NoResult

vars == <<inputs, optPc, options, thrown, os, osRelease, verdict, pc, binIdx,
          fsPending, fsDirs, copied, upxExe, compressAttempts, compressed,
          log, packageIndex, result>>

optVars  == <<inputs, optPc>>
pipeVars == <<pc, binIdx, fsPending, fsDirs, copied, upxExe, compressAttempts,
              compressed, log, packageIndex, result>>

\* what download and upload only read
givenVars == <<inputs, optPc, options, os, osRelease, verdict, packageIndex>>
\* the distribution directory and the compression loop
bdistVars == <<binIdx, fsPending, fsDirs, copied, upxExe, compressAttempts, compressed>>

-----------------------------------------------------------------------------
(* Bounds *)

MaxInputs == 1    \* how many inputs the caller supplies besides the force flags
MaxPad == 1       \* how many blanks may surround a supplied option value

-----------------------------------------------------------------------------
(* Strings *)

WhiteSpace == {" ", "\t", "\n"}

Digits == {"0", "1", "2", "3", "4", "5", "6", "7", "8", "9"}

DigitValue(c) ==
  CASE c = "0" -> 0 [] c = "1" -> 1 [] c = "2" -> 2 [] c = "3" -> 3 [] c = "4" -> 4
    [] c = "5" -> 5 [] c = "6" -> 6 [] c = "7" -> 7 [] c = "8" -> 8 [] c = "9" -> 9

RECURSIVE Pad(_)
Pad(n) == IF n = 0 THEN <<>> ELSE <<" ">> \o Pad(n - 1)

RECURSIVE trimStart(_)
trimStart(s) ==
  IF s = <<>> THEN s
  ELSE IF Head(s) \in WhiteSpace THEN trimStart(Tail(s)) ELSE s

RECURSIVE trimEnd(_)
trimEnd(s) ==
  IF s = <<>> THEN s
  ELSE IF s[Len(s)] \in WhiteSpace THEN trimEnd(SubSeq(s, 1, Len(s) - 1)) ELSE s

\* String.prototype.trim
trim(s) == trimEnd(trimStart(s))

\* String.prototype.split with a separator that matches one character class
\* one or more times (/\s+/g) or exactly once ('.'): the pieces between the
\* separators, empty pieces at the ends included.
RECURSIVE skipSeparators(_, _)
skipSeparators(s, seps) ==
  IF s # <<>> /\ Head(s) \in seps THEN skipSeparators(Tail(s), seps) ELSE s

RECURSIVE splitOn(_, _, _, _)
splitOn(s, seps, greedy, piece) ==
  IF s = <<>> THEN <<piece>>
  ELSE IF Head(s) \in seps
       THEN <<piece>> \o splitOn(IF greedy THEN skipSeparators(Tail(s), seps) ELSE Tail(s),
                                 seps, greedy, <<>>)
       ELSE splitOn(Tail(s), seps, greedy, Append(piece, Head(s)))

\* Array.prototype.join('')
RECURSIVE join(_)
join(pieces) == IF pieces = <<>> THEN <<>> ELSE Head(pieces) \o join(Tail(pieces))

S_latest  == <<"l", "a", "t", "e", "s", "t">>
S_nightly == <<"n", "i", "g", "h", "t", "l", "y">>
S_false   == <<"f", "a", "l", "s", "e">>
S_true    == <<"t", "r", "u", "e">>

-----------------------------------------------------------------------------
(* JavaScript values *)

JSUndefined == [type |-> "undefined", str |-> <<>>, bool |-> FALSE]
JSBool(b)   == [type |-> "boolean", str |-> <<>>, bool |-> b]
JSStr(s)    == [type |-> "string", str |-> s, bool |-> FALSE]

NoError  == "none"
NoResult == "none"
NoExe    == "none"

-----------------------------------------------------------------------------
(* simver: the version comparator (src/util/simver.ts is not among the     *)
(* sources; modelled from the specification: dot-separated numeric         *)
(* components, missing trailing components count as zero, a malformed      *)
(* version makes every comparison false).                                  *)

RECURSIVE parseNumber(_, _)
parseNumber(s, acc) ==
  IF s = <<>> THEN acc ELSE parseNumber(Tail(s), 10 * acc + DigitValue(Head(s)))

simverWellFormed(v) ==
  /\ v # <<>>
  /\ \A i \in 1..Len(splitOn(v, {"."}, FALSE, <<>>)) :
        LET part == splitOn(v, {"."}, FALSE, <<>>)[i]
        IN part # <<>> /\ \A j \in 1..Len(part) : part[j] \in Digits

simverParse(v) ==
  LET parts == splitOn(v, {"."}, FALSE, <<>>)
  IN [i \in 1..Len(parts) |-> parseNumber(parts[i], 0)]

simverComponent(p, i) == IF i <= Len(p) THEN p[i] ELSE 0

\* -1, 0 or 1; components past the end of the shorter version are zero
RECURSIVE simverCompareFrom(_, _, _)
simverCompareFrom(p, q, i) ==
  IF i > Len(p) /\ i > Len(q) THEN 0
  ELSE IF simverComponent(p, i) < simverComponent(q, i) THEN -1
  ELSE IF simverComponent(p, i) > simverComponent(q, i) THEN 1
  ELSE simverCompareFrom(p, q, i + 1)

simverCompare(a, b) == simverCompareFrom(simverParse(a), simverParse(b), 1)

simverGte(a, b) ==
  simverWellFormed(a) /\ simverWellFormed(b) /\ simverCompare(a, b) >= 0

simverLt(a, b) ==
  simverWellFormed(a) /\ simverWellFormed(b) /\ simverCompare(a, b) < 0

-----------------------------------------------------------------------------
(* semver.validRange, on the range grammar the inputs below use: a range   *)
(* is a blank-separated list of comparators, each an optional operator     *)
(* (<, >, <=, >=, =) followed by a version of one to three numeric         *)
(* components; the empty range is valid (it matches every version).       *)

RangeOperators == {<< >>, <<"<">>, <<">">>, <<"=">>, <<"<", "=">>, <<">", "=">>}

stripOperator(c) == skipSeparators(c, {"<", ">", "="})

operatorOf(c) == SubSeq(c, 1, Len(c) - Len(stripOperator(c)))

validComparator(c) ==
  /\ operatorOf(c) \in RangeOperators
  /\ simverWellFormed(stripOperator(c))
  /\ Len(simverParse(stripOperator(c))) <= 3

validRange(r) ==
  LET comparators == splitOn(trim(r), WhiteSpace, TRUE, <<>>)
  IN trim(r) = <<>> \/ \A i \in 1..Len(comparators) : validComparator(comparators[i])

-----------------------------------------------------------------------------
(* Mustache.parse, on templates of text and {{name}} / {{{name}}} tags:    *)
(* TRUE when the template parses, FALSE when the parser throws             *)
(* "Unclosed tag".                                                         *)

\* position after the first closing tag }} at or after i, or 0 when there is none
RECURSIVE scanClosingTag(_, _)
scanClosingTag(t, i) ==
  IF i + 1 > Len(t) THEN 0
  ELSE IF t[i] = "}" /\ t[i + 1] = "}" THEN i + 2
  ELSE scanClosingTag(t, i + 1)

\* position after the first } at or after i, or 0 when there is none
RECURSIVE scanClosingCurly(_, _)
scanClosingCurly(t, i) ==
  IF i > Len(t) THEN 0
  ELSE IF t[i] = "}" THEN i + 1
  ELSE scanClosingCurly(t, i + 1)

\* the position after the tag whose opening {{ ends right before i, or 0
scanTag(t, i) ==
  IF i <= Len(t) /\ t[i] = "{"
  THEN IF scanClosingCurly(t, i + 1) = 0 THEN 0
       ELSE scanClosingTag(t, scanClosingCurly(t, i + 1))
  ELSE scanClosingTag(t, i)

RECURSIVE mustacheParse(_, _)
mustacheParse(t, i) ==
  IF i + 1 > Len(t) THEN TRUE
  ELSE IF t[i] = "{" /\ t[i + 1] = "{"
       THEN scanTag(t, i + 2) # 0 /\ mustacheParse(t, scanTag(t, i + 2))
       ELSE mustacheParse(t, i + 1)

bdistNameDefaultTemplate ==
  <<"a", "g", "d", "a", "-">>
    \o <<"{", "{", "{", "a", "g", "d", "a", "-", "v", "e", "r", "s", "i", "o", "n", "}", "}", "}">>
    \o <<"-", "{", "{", "{", "a", "r", "c", "h", "}", "}", "}">>
    \o <<"-", "{", "{", "{", "p", "l", "a", "t", "f", "o", "r", "m", "}", "}", "}">>

-----------------------------------------------------------------------------
(* The inputs of the action *)

SetupHaskellOption == {"cabal-version", "ghc-version", "stack-version"}

SetupHaskellFlag ==
  {"disable-matcher", "enable-stack", "stack-no-global", "stack-setup-ghc"}

SetupAgdaOption ==
  {"agda-version", "bdist-name", "ghc-version-range"} \cup SetupHaskellOption

SetupAgdaFlag ==
  {"bdist-compress-exe", "bdist-upload", "disable-cluster-counting", "force-build",
   "force-no-build", "ghc-version-match-exact"} \cup SetupHaskellFlag

BuildOptionsLists ==
  {"extra-include-dirs", "extra-lib-dirs", "ghc-supported-versions"}

\* action.yml, inputs.<name>.default: the file is not among the sources; the
\* version inputs default to 'latest', the range to '>=8.0', and bdist-name
\* declares no default
inputSpec ==
  [k \in SetupAgdaOption |->
     CASE k = "bdist-name" -> JSUndefined
       [] k = "ghc-version-range" -> JSStr(<<">", "=", "8", ".", "0">>)
       [] OTHER -> JSStr(S_latest)]

\* the values a caller supplies for an option, without surrounding blanks
OptionCores(k) ==
  CASE k = "agda-version" -> {<<>>, S_nightly, <<"2", ".", "6", ".", "2">>}
    [] k = "ghc-version" -> {<<>>, S_latest, <<"9", ".", "0", ".", "1">>}
    [] k = "ghc-version-range" -> {<<>>, <<">", "=", "8", ".", "0", " ", "<", "9">>, <<"b">>}
    [] k = "bdist-name" ->
         {<<>>, <<"m", "y", " ", "a", "g", "d", "a">>,
          <<"a", "g", "d", "a", "-", "{", "{", "{", "a", "g", "d", "a", "-", "v", "e", "r", "s", "i", "o", "n", "}", "}", "}">>,
          <<"a", "g", "d", "a", "-", "{", "{", "a", "r", "c", "h">>}
    [] k = "cabal-version" -> {<<>>, <<"3", ".", "6">>}
    [] k = "stack-version" -> {<<>>, <<"2", ".", "7">>}

OptionInputs(k) ==
  {JSStr(Pad(l) \o c \o Pad(r)) : l \in 0..MaxPad, r \in 0..MaxPad, c \in OptionCores(k)}

FlagInputs ==
  {JSBool(TRUE), JSBool(FALSE), JSStr(<<>>), JSStr(S_false), JSStr(<<"0">>),
   JSStr(<<" ">>)}

RawInputs(k) == IF k \in SetupAgdaOption THEN OptionInputs(k) ELSE FlagInputs

-----------------------------------------------------------------------------
(* getOptions *)

getOption(in, k) ==
  LET maybeInput == in[k]
  IN IF maybeInput.type # "undefined" THEN trim(maybeInput.str)
     ELSE IF inputSpec[k].type # "undefined" THEN inputSpec[k].str
     ELSE <<>>

\* getFlag that takes the string 'true' alone for true
getFlagStringTrue(in, k) == in[k] = JSStr(S_true)

\* getFlag as a boolean cast of the usual kind: the string '0' is falsy too
getFlagCast(in, k) ==
  LET maybeInput == in[k]
  IN maybeInput \notin {JSBool(FALSE), JSStr(<<>>), JSStr(S_false), JSStr(<<"0">>),
                        JSUndefined}

getFlag(in, k) ==
  LET maybeInput == in[k]
  IN maybeInput \notin {JSBool(FALSE), JSStr(<<>>), JSStr(S_false), JSUndefined}

\* the object literal assigned to `options`
resolveOptions(in) ==
  [k \in SetupAgdaOption \cup SetupAgdaFlag \cup BuildOptionsLists |->
     IF k \in SetupAgdaOption THEN getOption(in, k)
     ELSE IF k \in SetupAgdaFlag THEN getFlag(in, k)
     ELSE <<>>]

\* options['bdist-name'].split(/\s+/g).join('').trim()
normalizeBdistName(name) == trim(join(splitOn(name, WhiteSpace, TRUE, <<>>)))

\* validateOptions without the force-build / force-no-build check
validateOptionsNoForceCheck(o) ==
  IF o["agda-version"] = S_nightly THEN "Value nightly for input agda-version is unupported"
  ELSE IF o["ghc-version"] # S_latest THEN "Input ghc-version is unsupported"
  ELSE IF ~validRange(o["ghc-version-range"])
    THEN "Input ghc-version-range is not a valid version range"
  ELSE IF o["bdist-name"] = <<>>
    THEN IF mustacheParse(bdistNameDefaultTemplate, 1) THEN NoError ELSE "Unclosed tag"
  ELSE IF mustacheParse(normalizeBdistName(o["bdist-name"]), 1) THEN NoError
  ELSE "Could not parse bdist-name"

\* the Error the validation ends in, or NoError
validateOptions(o) ==
  IF o["agda-version"] = S_nightly THEN "Value nightly for input agda-version is unupported"
  ELSE IF o["ghc-version"] # S_latest THEN "Input ghc-version is unsupported"
  ELSE IF ~validRange(o["ghc-version-range"])
    THEN "Input ghc-version-range is not a valid version range"
  ELSE IF o["force-build"] /\ o["force-no-build"] THEN "Build or no build?"
  ELSE IF o["bdist-name"] = <<>>
    THEN IF mustacheParse(bdistNameDefaultTemplate, 1) THEN NoError ELSE "Unclosed tag"
  ELSE IF mustacheParse(normalizeBdistName(o["bdist-name"]), 1) THEN NoError
  ELSE "Could not parse bdist-name"

\* whether the validation reaches the assignment to options['bdist-name']
reachesBdistName(o) ==
  /\ o["agda-version"] # S_nightly
  /\ o["ghc-version"] = S_latest
  /\ validRange(o["ghc-version-range"])
  /\ ~(o["force-build"] /\ o["force-no-build"])
  /\ o["bdist-name"] # <<>>

\* `options` when getOptions returns or throws
getOptions(in) ==
  LET o == resolveOptions(in)
  IN IF reachesBdistName(o)
     THEN [o EXCEPT !["bdist-name"] = normalizeBdistName(o["bdist-name"])]
     ELSE o

NoOptions == [k \in {} |-> FALSE]

ForceFlags == {"force-build", "force-no-build"}

\* the inputs of a workflow that sets some of the force flags and nothing else
ForceFlagInputs ==
  { [k \in SetupAgdaOption \cup SetupAgdaFlag |->
       IF k \in on THEN JSStr(S_true) ELSE JSUndefined] : on \in SUBSET ForceFlags }

\* the inputs supplied besides those
Supplied ==
  {k \in DOMAIN inputs :
     inputs[k] # JSUndefined /\ ~(k \in ForceFlags /\ inputs[k] = JSStr(S_true))}

\* the caller supplies one more input (a `with:` entry of the workflow)
SetInput ==
  /\ optPc = "idle"
  /\ Cardinality(Supplied) < MaxInputs
  /\ \E k \in SetupAgdaOption \cup SetupAgdaFlag :
       /\ inputs[k] = JSUndefined
       /\ \E v \in RawInputs(k) : inputs' = [inputs EXCEPT ![k] = v]
  /\ UNCHANGED <<optPc, options, thrown, os, osRelease, verdict>>
  /\ UNCHANGED pipeVars

GetOptions ==
  /\ optPc \in {"idle", "fed"}
  /\ options' = getOptions(inputs)
  /\ thrown' = validateOptions(resolveOptions(inputs))
  /\ optPc' = IF thrown' = NoError THEN "returned" ELSE "thrown"
  /\ UNCHANGED <<inputs, os, osRelease, verdict>>
  /\ UNCHANGED pipeVars

\* the record getOptions returned, as the `inputs` of another call
\* (a Partial<SetupAgdaInputs>: option strings and flag booleans)
asInputs(o) ==
  [k \in SetupAgdaOption \cup SetupAgdaFlag |->
     IF k \in SetupAgdaFlag THEN JSBool(o[k]) ELSE JSStr(o[k])]

\* the caller hands the returned record to getOptions again
FeedBack ==
  /\ optPc = "returned"
  /\ inputs # asInputs(options)
  /\ inputs' = asInputs(options)
  /\ optPc' = "fed"
  /\ UNCHANGED <<options, thrown, os, osRelease, verdict>>
  /\ UNCHANGED pipeVars

InitOptions ==
  /\ inputs \in ForceFlagInputs
  /\ optPc = "idle"
  /\ options = NoOptions
  /\ thrown = NoError
  /\ os = "linux"
  /\ osRelease = <<>>
  /\ verdict = [rule |-> "none", value |-> FALSE]
  /\ pc = "idle"
  /\ binIdx = 0
  /\ fsPending = {}
  /\ fsDirs = {}
  /\ copied = {}
  /\ upxExe = NoExe
  /\ compressAttempts = {}
  /\ compressed = {}
  /\ log = <<>>
  /\ packageIndex = {}
  /\ result = NoResult

NextOptions ==
  \/ SetInput
  \/ GetOptions
  \/ FeedBack

SpecOptions == InitOptions /\ [][NextOptions]_vars

-----------------------------------------------------------------------------
(* The compatibility predicates *)

OS == {"linux", "macos", "windows"}

compressExe(o) == o["bdist-compress-exe"]

\* supportsClusterCounting without the text-icu clause (depr)
supportsClusterCountingNoDepr(o) ==
  LET agda == simverGte(o["agda-version"], <<"2", ".", "5", ".", "3">>)
      user == ~o["disable-cluster-counting"]
      todo == ~o["enable-stack"]
  IN agda /\ user /\ todo

supportsClusterCounting(o) ==
  LET agda == simverGte(o["agda-version"], <<"2", ".", "5", ".", "3">>)
      user == ~o["disable-cluster-counting"]
      todo == ~o["enable-stack"]
      depr == simverGte(o["agda-version"], <<"2", ".", "6", ".", "2">>)
  IN agda /\ user /\ todo /\ depr

supportsOptimiseHeavily(o) == simverGte(o["agda-version"], <<"2", ".", "6", ".", "2">>)

\* supportsExecutableStatic with the platform clause it has in its comment
supportsExecutableStaticOnLinux(o) ==
  LET osOK == os = "linux"
      ghcVersionOK == simverGte(o["ghc-version"], <<"8", ".", "4">>)
  IN osOK /\ ghcVersionOK

supportsExecutableStatic(o) ==
  LET osOK == FALSE
      ghcVersionOK == simverGte(o["ghc-version"], <<"8", ".", "4">>)
  IN osOK /\ ghcVersionOK

supportsSplitSections(o) ==
  LET osOK == os = "linux" \/ os = "windows"
      ghcVersionOK == simverGte(o["ghc-version"], <<"8", ".", "0">>)
      cabalVersionOK == simverGte(o["cabal-version"], <<"2", ".", "2">>)
  IN osOK /\ ghcVersionOK /\ cabalVersionOK

supportsUPX == os # "macos" \/ simverLt(osRelease, <<"2", "1">>)

\* the BuildOptions the predicates are asked about: the resolved defaults,
\* with the versions and flags the later stages of the action fill in
AgdaVersions ==
  {<<"2", ".", "5", ".", "0">>, <<"2", ".", "5", ".", "3">>, <<"2", ".", "6">>, <<"2", ".", "6", ".", "1">>, <<"2", ".", "6", ".", "2">>, <<"2", ".", "6", ".", "4">>, S_latest}

GhcVersions == {<<"8", ".", "2", ".", "2">>, <<"8", ".", "4">>, <<"8", ".", "4", ".", "3">>, <<"9", ".", "0", ".", "1">>, S_latest}

CabalVersions == {<<"2", ".", "0">>, <<"3", ".", "6">>}

Releases == {<<"2", "0", ".", "6", ".", "0">>, <<"2", "1">>, <<"2", "1", ".", "6", ".", "0">>, <<"2", "2", ".", "1", ".", "0">>}

DefaultOptions ==
  getOptions([k \in SetupAgdaOption \cup SetupAgdaFlag |-> JSUndefined])

SomeBuildOptions ==
  { [DefaultOptions EXCEPT !["agda-version"] = a, !["ghc-version"] = g,
                           !["cabal-version"] = c, !["bdist-compress-exe"] = x,
                           !["disable-cluster-counting"] = d, !["enable-stack"] = st] :
      a \in AgdaVersions, g \in GhcVersions, c \in CabalVersions,
      x \in BOOLEAN, d \in BOOLEAN, st \in BOOLEAN }

Evaluate(rule, value) ==
  /\ verdict' = [rule |-> rule, value |-> value]
  /\ UNCHANGED <<options, thrown, os, osRelease>>
  /\ UNCHANGED optVars
  /\ UNCHANGED pipeVars

EvalCompressExe == Evaluate("compressExe", compressExe(options))

EvalClusterCounting == Evaluate("supportsClusterCounting", supportsClusterCounting(options))

EvalOptimiseHeavily == Evaluate("supportsOptimiseHeavily", supportsOptimiseHeavily(options))

EvalExecutableStatic ==
  Evaluate("supportsExecutableStatic", supportsExecutableStatic(options))

EvalSplitSections == Evaluate("supportsSplitSections", supportsSplitSections(options))

EvalUPX == Evaluate("supportsUPX", supportsUPX)

InitCompat ==
  /\ inputs = [k \in SetupAgdaOption \cup SetupAgdaFlag |-> JSUndefined]
  /\ optPc = "returned"
  /\ options \in SomeBuildOptions
  /\ thrown = NoError
  /\ os \in OS
  /\ osRelease \in Releases
  /\ verdict = [rule |-> "none", value |-> FALSE]
  /\ pc = "idle"
  /\ binIdx = 0
  /\ fsPending = {}
  /\ fsDirs = {}
  /\ copied = {}
  /\ upxExe = NoExe
  /\ compressAttempts = {}
  /\ compressed = {}
  /\ log = <<>>
  /\ packageIndex = {}
  /\ result = NoResult

NextCompat ==
  \/ EvalCompressExe
  \/ EvalClusterCounting
  \/ EvalOptimiseHeavily
  \/ EvalExecutableStatic
  \/ EvalSplitSections
  \/ EvalUPX

SpecCompat == InitCompat /\ [][NextCompat]_vars

-----------------------------------------------------------------------------
(* renderName: Mustache.render over the whitelisted fields *)

arch == <<"x", "6", "4">>

\* node:os platform() for the detected opts.os
platform ==
  CASE os = "linux" -> <<"l", "i", "n", "u", "x">>
    [] os = "macos" -> <<"d", "a", "r", "w", "i", "n">>
    [] os = "windows" -> <<"w", "i", "n", "3", "2">>

optionalField(o, k) == IF k \in DOMAIN o THEN o[k] ELSE <<>>

\* the view handed to Mustache.render, looked up by tag name; a name that is
\* not in the view renders as the empty string
viewLookup(o, name) ==
  CASE name = <<"a", "g", "d", "a", "-", "v", "e", "r", "s", "i", "o", "n">> -> o["agda-version"]
    [] name = <<"g", "h", "c", "-", "v", "e", "r", "s", "i", "o", "n">> -> o["ghc-version"]
    [] name = <<"c", "a", "b", "a", "l", "-", "v", "e", "r", "s", "i", "o", "n">> -> o["cabal-version"]
    [] name = <<"s", "t", "a", "c", "k", "-", "v", "e", "r", "s", "i", "o", "n">> -> o["stack-version"]
    [] name = <<"i", "c", "u", "-", "v", "e", "r", "s", "i", "o", "n">> -> optionalField(o, "icu-version")
    [] name = <<"u", "p", "x", "-", "v", "e", "r", "s", "i", "o", "n">> -> optionalField(o, "upx-version")
    [] name = <<"a", "r", "c", "h">> -> arch
    [] name = <<"p", "l", "a", "t", "f", "o", "r", "m">> -> platform
    [] name = <<"r", "e", "l", "e", "a", "s", "e">> -> osRelease
    [] OTHER -> <<>>

\* Mustache's escapeHtml, applied to {{name}} but not to {{{name}}} (the
\* quote characters it escapes as well occur in none of the values)
escapeChar(c) ==
  CASE c = "&" -> <<"&", "a", "m", "p", ";">>
    [] c = "<" -> <<"&", "l", "t", ";">>
    [] c = ">" -> <<"&", "g", "t", ";">>
    [] c = "/" -> <<"&", "#", "x", "2", "F", ";">>
    [] c = "=" -> <<"&", "#", "x", "3", "D", ";">>
    [] c = "\"" -> <<"&", "q", "u", "o", "t", ";">>
    [] OTHER -> <<c>>

RECURSIVE escapeHtml(_)
escapeHtml(v) == IF v = <<>> THEN <<>> ELSE escapeChar(Head(v)) \o escapeHtml(Tail(v))

\* Mustache.render of a template that parses
RECURSIVE mustacheRender(_, _, _)
mustacheRender(t, i, o) ==
  IF i > Len(t) THEN <<>>
  ELSE IF i + 1 <= Len(t) /\ t[i] = "{" /\ t[i + 1] = "{"
       THEN IF i + 2 <= Len(t) /\ t[i + 2] = "{"
            THEN LET curly == scanClosingCurly(t, i + 3)
                 IN viewLookup(o, trim(SubSeq(t, i + 3, curly - 2)))
                      \o mustacheRender(t, scanClosingTag(t, curly), o)
            ELSE LET close == scanClosingTag(t, i + 2)
                 IN escapeHtml(viewLookup(o, trim(SubSeq(t, i + 2, close - 3))))
                      \o mustacheRender(t, close, o)
       ELSE <<t[i]>> \o mustacheRender(t, i + 1, o)

renderName(template, o) == mustacheRender(template, 1, o)

\* opts.getDefaultPackageName is not among the sources: the default template
getDefaultPackageName == bdistNameDefaultTemplate

-----------------------------------------------------------------------------
(* download *)

Logged(op, arg) == Append(log, [op |-> op, arg |-> arg])

InLog(op) == \E i \in 1..Len(log) : log[i].op = op

\* download, up to the await of tc.downloadTool
Download ==
  /\ pc = "idle"
  /\ LET bdistName == renderName(getDefaultPackageName, options)
     IN IF bdistName \in packageIndex
        THEN /\ log' = log \o <<[op |-> "info", arg |-> <<"Found package">>],
                                [op |-> "info", arg |-> <<"Downloading package">>],
                                [op |-> "downloadTool", arg |-> bdistName]>>
             /\ pc' = "download:downloadTool"
             /\ result' = result
        ELSE /\ log' = Logged("info", <<"Could not find package">>)
             /\ pc' = "download:returned"
             /\ result' = "null"
  /\ UNCHANGED <<givenVars, bdistVars, thrown>>

\* tc.downloadTool resolves
DownloadToolResolves ==
  /\ pc = "download:downloadTool"
  /\ result' = "path"
  /\ pc' = "download:returned"
  /\ UNCHANGED <<givenVars, bdistVars, thrown, log>>

\* a download whose catch block rethrows
DownloadToolRejectsRethrown ==
  /\ pc = "download:downloadTool"
  /\ log' = Logged("warning", <<"Failed to download package">>)
  /\ thrown' = "downloadTool failed"
  /\ pc' = "download:thrown"
  /\ UNCHANGED <<givenVars, bdistVars, result>>

\* tc.downloadTool rejects: the catch block warns and returns null
DownloadToolRejects ==
  /\ pc = "download:downloadTool"
  /\ log' = Logged("warning", <<"Failed to download package">>)
  /\ result' = "null"
  /\ pc' = "download:returned"
  /\ UNCHANGED <<givenVars, bdistVars, thrown>>

-----------------------------------------------------------------------------
(* upload *)

\* util.agdaBinNames (src/util is not among the sources): the executables of
\* an Agda installation
agdaBinNames == <<"agda", "agda-mode">>

RetentionDays == 90

bdistDir == "bdist"
bdistBinDir == "bdist/bin"

\* opts.shouldCompressExe as upload names it; opts.ts has it as compressExe
shouldCompressExe(o) == compressExe(o)

\* where upload goes on after the "Compress binaries" block, and the call it
\* makes there
afterCompress(o) ==
  IF "icu-version" \in DOMAIN o THEN "upload:icu.bundle" ELSE "upload:agdaTest"

\* the awaited call rejects outside any try block: upload rejects with it
Rejects(at, message) ==
  /\ pc = at
  /\ thrown' = message
  /\ pc' = "upload:thrown"
  /\ log' = Logged("rejected", <<message>>)
  /\ UNCHANGED <<givenVars, bdistVars, result>>

\* upload, up to its first await: both util.mkdirP calls are started and not
\* awaited, and the first util.cp is started
Upload ==
  /\ pc = "idle"
  /\ fsPending' = {bdistDir, bdistBinDir}
  /\ binIdx' = 1
  /\ pc' = "upload:cp"
  /\ log' = Logged("cp", <<agdaBinNames[1]>>)
  /\ UNCHANGED <<givenVars, thrown, result, fsDirs, copied, upxExe, compressAttempts,
                 compressed>>

\* a started util.mkdirP finishes (it creates the parents as well)
MkdirPCompletes ==
  /\ \E d \in fsPending :
       /\ fsPending' = fsPending \ {d}
       /\ fsDirs' = fsDirs \cup {d, bdistDir}
  /\ UNCHANGED <<givenVars, thrown, result, pc, log, binIdx, copied, upxExe,
                 compressAttempts, compressed>>

\* util.cp of the current executable resolves; the loop goes on
CpResolves ==
  /\ pc = "upload:cp"
  /\ bdistBinDir \in fsDirs
  /\ copied' = copied \cup {agdaBinNames[binIdx]}
  /\ IF binIdx < Len(agdaBinNames)
     THEN /\ binIdx' = binIdx + 1
          /\ pc' = pc
          /\ log' = Logged("cp", <<agdaBinNames[binIdx + 1]>>)
     ELSE /\ binIdx' = 0
          /\ pc' = "upload:cpR"
          /\ log' = Logged("cpR", <<"data">>)
  /\ UNCHANGED <<givenVars, thrown, result, fsPending, fsDirs, upxExe, compressAttempts,
                 compressed>>

CpRejects == Rejects("upload:cp", "cp failed")

\* util.cpR of the data directory resolves
CpRResolves ==
  /\ pc = "upload:cpR"
  /\ IF shouldCompressExe(options)
     THEN /\ pc' = "upload:setupUpx"
          /\ log' = Logged("setupUpx", <<>>)
     ELSE /\ pc' = afterCompress(options)
          /\ log' = Logged(afterCompress(options), <<>>)
  /\ UNCHANGED <<givenVars, bdistVars, thrown, result>>

CpRRejects == Rejects("upload:cpR", "cpR failed")

\* setupUpx resolves: the loop over the executables starts
SetupUpxResolves ==
  /\ pc = "upload:setupUpx"
  /\ upxExe' = "upx"
  /\ binIdx' = 1
  /\ compressAttempts' = compressAttempts \cup {agdaBinNames[1]}
  /\ pc' = "upload:compressBin"
  /\ log' = Logged("compressBin", <<agdaBinNames[1]>>)
  /\ UNCHANGED <<givenVars, thrown, result, fsPending, fsDirs, copied, compressed>>

\* setupUpx rejects: the catch block logs it
SetupUpxRejects ==
  /\ pc = "upload:setupUpx"
  /\ pc' = afterCompress(options)
  /\ log' = Append(Logged("debug", <<"setupUpx failed">>),
                   [op |-> afterCompress(options), arg |-> <<>>])
  /\ UNCHANGED <<givenVars, bdistVars, thrown, result>>

\* what printNeededLibs logs: the libraries, or the swallowed error
neededLibs(ok) ==
  IF ok THEN [op |-> "info", arg |-> <<"Needed libraries">>]
  ELSE [op |-> "debug", arg |-> <<"printNeededLibs failed">>]

\* compressBin of the current executable resolves; the loop goes on
CompressBinResolves ==
  /\ pc = "upload:compressBin"
  /\ compressed' = compressed \cup {agdaBinNames[binIdx]}
  /\ \E before \in BOOLEAN, after \in BOOLEAN :
       LET logged == log \o <<neededLibs(before), neededLibs(after)>>
       IN IF binIdx < Len(agdaBinNames)
          THEN /\ binIdx' = binIdx + 1
               /\ compressAttempts' = compressAttempts \cup {agdaBinNames[binIdx + 1]}
               /\ pc' = pc
               /\ log' = Append(logged, [op |-> "compressBin",
                                         arg |-> <<agdaBinNames[binIdx + 1]>>])
          ELSE /\ binIdx' = 0
               /\ compressAttempts' = compressAttempts
               /\ pc' = afterCompress(options)
               /\ log' = Append(logged, [op |-> afterCompress(options), arg |-> <<>>])
  /\ UNCHANGED <<givenVars, thrown, result, fsPending, fsDirs, copied, upxExe>>

\* a compressBin whose failure ends upload
CompressBinRejectsFatal ==
  /\ pc = "upload:compressBin"
  /\ \E before \in BOOLEAN :
       log' = log \o <<neededLibs(before),
                       [op |-> "compressBin:failed", arg |-> <<agdaBinNames[binIdx]>>]>>
  /\ thrown' = "upx failed"
  /\ pc' = "upload:thrown"
  /\ binIdx' = 0
  /\ UNCHANGED <<givenVars, result, fsPending, fsDirs, copied, upxExe,
                 compressAttempts, compressed>>

\* UPX fails on the current executable: compressBin rejects, the catch block
\* around the loop logs it, and upload goes on after the block
CompressBinRejects ==
  /\ pc = "upload:compressBin"
  /\ \E before \in BOOLEAN :
       log' = log \o <<neededLibs(before),
                       [op |-> "compressBin:failed", arg |-> <<agdaBinNames[binIdx]>>],
                       [op |-> "debug", arg |-> <<"upx failed">>],
                       [op |-> afterCompress(options), arg |-> <<>>]>>
  /\ pc' = afterCompress(options)
  /\ binIdx' = 0
  /\ UNCHANGED <<givenVars, thrown, result, fsPending, fsDirs, copied, upxExe,
                 compressAttempts, compressed>>

\* icu.bundle resolves
IcuBundleResolves ==
  /\ pc = "upload:icu.bundle"
  /\ pc' = "upload:agdaTest"
  /\ log' = Logged("upload:agdaTest", <<>>)
  /\ UNCHANGED <<givenVars, bdistVars, thrown, result>>

IcuBundleRejects == Rejects("upload:icu.bundle", "icu.bundle failed")

\* an upload that logs a failed smoke test and publishes all the same
AgdaTestRejectsIgnored ==
  /\ pc = "upload:agdaTest"
  /\ pc' = "upload:glob"
  /\ log' = Logged("rejected", <<"agdaTest failed">>)
  /\ UNCHANGED <<givenVars, bdistVars, thrown, result>>

\* util.agdaTest resolves: the smoke test passed
AgdaTestResolves ==
  /\ pc = "upload:agdaTest"
  /\ pc' = "upload:glob"
  /\ log' = Logged("agdaTest:passed", <<>>)
  /\ UNCHANGED <<givenVars, bdistVars, thrown, result>>

AgdaTestRejects == Rejects("upload:agdaTest", "agdaTest failed")

\* glob.create and globber.glob resolve: the artifact upload is called
GlobResolves ==
  /\ pc = "upload:glob"
  /\ pc' = "upload:uploadArtifact"
  /\ log' = Append(log, [op |-> "uploadArtifact",
                         arg |-> renderName(options["bdist-name"], options),
                         retentionDays |-> RetentionDays])
  /\ UNCHANGED <<givenVars, bdistVars, thrown, result>>

GlobRejects == Rejects("upload:glob", "glob failed")

\* what artifactClient.uploadArtifact resolves to: the name it was called
\* with, and the files it could not upload
UploadResponses ==
  { [op |-> "uploadArtifact:resolved", arg |-> log[Len(log)].arg, failedItems |-> f] :
      f \in {<<>>, <<"bin/agda">>, <<"bin/agda", "data/lib/prim">>} }

\* an upload that treats failed items as an error
UploadArtifactResolvesStrict ==
  /\ pc = "upload:uploadArtifact"
  /\ \E uploadInfo \in UploadResponses :
       IF Len(uploadInfo.failedItems) > 0
       THEN /\ log' = log \o <<uploadInfo, [op |-> "error",
                                            arg |-> <<"Failed to upload:">>
                                                      \o uploadInfo.failedItems]>>
            /\ thrown' = "Failed to upload"
            /\ result' = result
            /\ pc' = "upload:thrown"
       ELSE /\ log' = Append(log, uploadInfo)
            /\ thrown' = thrown
            /\ result' = uploadInfo.arg
            /\ pc' = "upload:returned"
  /\ UNCHANGED <<givenVars, bdistVars>>

\* artifactClient.uploadArtifact resolves, with or without failed items: the
\* failed items are reported with core.error, and the artifact name returned
UploadArtifactResolves ==
  /\ pc = "upload:uploadArtifact"
  /\ \E uploadInfo \in UploadResponses :
       /\ log' = IF Len(uploadInfo.failedItems) > 0
                 THEN log \o <<uploadInfo, [op |-> "error",
                                            arg |-> <<"Failed to upload:">>
                                                      \o uploadInfo.failedItems]>>
                 ELSE Append(log, uploadInfo)
       /\ result' = uploadInfo.arg
  /\ pc' = "upload:returned"
  /\ UNCHANGED <<givenVars, bdistVars, thrown>>

UploadArtifactRejects == Rejects("upload:uploadArtifact", "uploadArtifact failed")

\* the BuildOptions download and upload are called with
PipelineOptions ==
  { [x \in DOMAIN o \cup icu |-> IF x \in DOMAIN o THEN o[x] ELSE <<"7", "1", ".", "1">>] :
      o \in { [DefaultOptions EXCEPT !["agda-version"] = a, !["bdist-name"] = n,
                                     !["bdist-compress-exe"] = c] :
                a \in {<<"2", ".", "6", ".", "2">>, <<"2", ".", "6", ".", "4">>},
                n \in {<<>>, <<"a", "g", "d", "a", "-", "{", "{", "{", "a", "g", "d", "a", "-", "v", "e", "r", "s", "i", "o", "n", "}", "}", "}", "-", "{", "{", "{", "p", "l", "a", "t", "f", "o", "r", "m", "}", "}", "}">>, <<"{", "{", "a", "r", "c", "h", "}", "}">>},
                c \in BOOLEAN },
      icu \in {{}, {"icu-version"}} }

PackageIndexes ==
  { {},
    {<<"a", "g", "d", "a", "-", "2", ".", "6", ".", "2", "-", "x", "6", "4", "-", "l", "i", "n", "u", "x">>},
    {<<"a", "g", "d", "a", "-", "2", ".", "6", ".", "2", "-", "x", "6", "4", "-", "l", "i", "n", "u", "x">>, <<"a", "g", "d", "a", "-", "2", ".", "6", ".", "4", "-", "x", "6", "4", "-", "d", "a", "r", "w", "i", "n">>, <<"a", "g", "d", "a", "-", "2", ".", "6", ".", "4", "-", "x", "6", "4", "-", "w", "i", "n", "3", "2">>} }

InitPipeline ==
  /\ inputs = [k \in SetupAgdaOption \cup SetupAgdaFlag |-> JSUndefined]
  /\ optPc = "returned"
  /\ options \in PipelineOptions
  /\ thrown = NoError
  /\ os \in OS
  /\ osRelease = <<"2", "1", ".", "6", ".", "0">>
  /\ verdict = [rule |-> "none", value |-> FALSE]
  /\ pc = "idle"
  /\ binIdx = 0
  /\ fsPending = {}
  /\ fsDirs = {}
  /\ copied = {}
  /\ upxExe = NoExe
  /\ compressAttempts = {}
  /\ compressed = {}
  /\ log = <<>>
  /\ packageIndex \in PackageIndexes
  /\ result = NoResult

NextPipeline ==
  \/ Download
  \/ DownloadToolResolves
  \/ DownloadToolRejects
  \/ Upload
  \/ MkdirPCompletes
  \/ CpResolves
  \/ CpRejects
  \/ CpRResolves
  \/ CpRRejects
  \/ SetupUpxResolves
  \/ SetupUpxRejects
  \/ CompressBinResolves
  \/ CompressBinRejects
  \/ IcuBundleResolves
  \/ IcuBundleRejects
  \/ AgdaTestResolves
  \/ AgdaTestRejects
  \/ GlobResolves
  \/ GlobRejects
  \/ UploadArtifactResolves
  \/ UploadArtifactRejects

SpecPipeline == InitPipeline /\ [][NextPipeline]_vars

-----------------------------------------------------------------------------
(* Properties of the options resolver *)

RawIsFalsy(raw) ==
  \/ raw.type = "undefined"
  \/ raw.type = "boolean" /\ ~raw.bool
  \/ raw.type = "string" /\ raw.str = <<>>
  \/ raw.type = "string" /\ raw.str = S_false

\* C1: once getOptions has resolved the inputs, every flag is false when its
\* raw input is undefined, '', false or "false", and true for every other raw
\* input ("0", true, any other string).
C1_FlagResolution ==
  optPc # "idle" =>
    \A k \in SetupAgdaFlag : options[k] = ~RawIsFalsy(inputs[k])

C1_Witness ==
  /\ optPc # "idle"
  /\ \E k \in SetupAgdaFlag : inputs[k] = JSStr(<<"0">>) /\ options[k]

\* C2: once getOptions has resolved the inputs, every option that declares a
\* default and whose raw input is absent or empty after trimming has the
\* declared default as its value.
C2_DefaultWhenAbsentOrEmpty ==
  optPc # "idle" =>
    \A k \in SetupAgdaOption :
      (/\ inputSpec[k].type # "undefined"
       /\ inputs[k].type = "undefined" \/ trim(inputs[k].str) = <<>>)
      => options[k] = inputSpec[k].str

EarlierValidationsPass ==
  /\ options["agda-version"] # S_nightly
  /\ options["ghc-version"] = S_latest
  /\ validRange(options["ghc-version-range"])

\* C3: when force-build and force-no-build both resolve to true and the
\* earlier validations pass, getOptions throws the configuration error and
\* returns no record; when at most one of them is true, that error is not
\* thrown.
C3_ForceFlagsExclusive ==
  optPc # "idle" =>
    /\ (options["force-build"] /\ options["force-no-build"] /\ EarlierValidationsPass)
         => (optPc = "thrown" /\ thrown = "Build or no build?")
    /\ ~(options["force-build"] /\ options["force-no-build"])
         => thrown # "Build or no build?"

C3_Witness ==
  /\ optPc = "thrown"
  /\ thrown = "Build or no build?"
  /\ options["force-build"] /\ options["force-no-build"]

-----------------------------------------------------------------------------
(* Properties of the compatibility predicates *)

\* C4: supportsClusterCounting is true exactly when agda-version >= 2.5.3,
\* agda-version >= 2.6.2, disable-cluster-counting is false and enable-stack
\* is false; it is false below 2.5.3 whatever the flags, and setting
\* disable-cluster-counting never turns the result from false to true.
C4_ClusterCounting ==
  verdict.rule = "supportsClusterCounting" =>
    /\ verdict.value =
         (/\ simverGte(options["agda-version"], <<"2", ".", "5", ".", "3">>)
          /\ simverGte(options["agda-version"], <<"2", ".", "6", ".", "2">>)
          /\ ~options["disable-cluster-counting"]
          /\ ~options["enable-stack"])
    /\ simverLt(options["agda-version"], <<"2", ".", "5", ".", "3">>) => ~verdict.value
    /\ simverLt(options["agda-version"], <<"2", ".", "6", ".", "2">>) => ~verdict.value
    /\ supportsClusterCounting([options EXCEPT !["disable-cluster-counting"] = TRUE])
         => supportsClusterCounting([options EXCEPT !["disable-cluster-counting"] = FALSE])
    /\ ~supportsClusterCounting([options EXCEPT !["disable-cluster-counting"] = TRUE])

C4_Witness ==
  /\ verdict.rule = "supportsClusterCounting"
  /\ verdict.value
  /\ options["agda-version"] = <<"2", ".", "6", ".", "4">>

\* C5: compressExe is false on macOS and on Windows for every BuildOptions,
\* also when bdist-compress-exe is true.
C5_NoCompressionOnMacOSWindows ==
  (verdict.rule = "compressExe" /\ os \in {"macos", "windows"}) => ~verdict.value

\* C6 as stated: supportsExecutableStatic is false on linux, and on the other
\* platforms it is true exactly when ghc-version >= 8.4.
C6_StaticOffOnLinuxOnly ==
  verdict.rule = "supportsExecutableStatic" =>
    /\ os = "linux" => ~verdict.value
    /\ os # "linux" => (verdict.value = simverGte(options["ghc-version"], <<"8", ".", "4">>))

\* C6: supportsExecutableStatic is the conjunction of its two clauses, and its
\* platform clause is false on every platform: the predicate is false on
\* linux, macOS and Windows for every ghc-version.
C6_StaticOffEverywhere ==
  verdict.rule = "supportsExecutableStatic" => ~verdict.value

C6_Witness ==
  /\ verdict.rule = "supportsExecutableStatic"
  /\ os = "macos"
  /\ simverGte(options["ghc-version"], <<"8", ".", "4">>)
  /\ ~verdict.value

\* C7: supportsUPX is true on linux and on windows for every release; on
\* macOS it is false when the release is below 21 and true from 21 on.
C7_UPXNotOnOldMacOS ==
  verdict.rule = "supportsUPX" =>
    /\ os \in {"linux", "windows"} => verdict.value
    /\ (os = "macos" /\ simverLt(osRelease, <<"2", "1">>)) => ~verdict.value
    /\ (os = "macos" /\ simverGte(osRelease, <<"2", "1">>)) => verdict.value

-----------------------------------------------------------------------------
(* Properties of download and upload *)

DownloadPcs == {"download:downloadTool", "download:returned", "download:thrown"}

AfterCompressPcs ==
  {"upload:icu.bundle", "upload:agdaTest", "upload:glob", "upload:uploadArtifact",
   "upload:returned", "upload:thrown"}

\* C8: download never raises: it returns null without a fetch when the
\* rendered default name is not in the package index, null when the name is
\* in the index and the fetch fails, and a path only when the name is in the
\* index and the fetch succeeded.
C8_DownloadNeverRaises ==
  pc \in DownloadPcs =>
    /\ pc # "download:thrown"
    /\ thrown = NoError
    /\ pc = "download:returned" =>
         /\ result \in {"null", "path"}
         /\ renderName(getDefaultPackageName, options) \notin packageIndex
              => (result = "null" /\ ~InLog("downloadTool"))
         /\ InLog("warning") => (result = "null" /\ InLog("downloadTool"))
         /\ result = "path" =>
              /\ renderName(getDefaultPackageName, options) \in packageIndex
              /\ InLog("downloadTool")
              /\ ~InLog("warning")

C8_Witness ==
  /\ pc = "download:returned"
  /\ result = "null"
  /\ renderName(getDefaultPackageName, options) \in packageIndex
  /\ InLog("downloadTool")
  /\ InLog("warning")

\* C9: the artifact upload is called only after a smoke test that passed, and
\* when the smoke test fails upload ends in an error and the artifact upload
\* is never called.
C9_PublishOnlyAfterVerify ==
  /\ \A i \in 1..Len(log) :
       log[i].op = "uploadArtifact" =>
         \E j \in 1..(i - 1) : log[j].op = "agdaTest:passed"
  /\ (\E i \in 1..Len(log) : log[i].op = "rejected" /\ log[i].arg = <<"agdaTest failed">>)
       => (pc = "upload:thrown" /\ thrown = "agdaTest failed" /\ ~InLog("uploadArtifact"))

C9_Witness ==
  /\ pc = "upload:returned"
  /\ InLog("agdaTest:passed")
  /\ InLog("uploadArtifact")

FailedCompressions ==
  {i \in 1..Len(agdaBinNames) :
     \E j \in 1..Len(log) :
       log[j].op = "compressBin:failed" /\ log[j].arg = <<agdaBinNames[i]>>}

\* C10 as stated: when compressing one executable fails, compression of every
\* remaining executable is still attempted, and upload goes on to the later
\* stages without raising.
C10_CompressionSkippedPerExecutable ==
  FailedCompressions # {} =>
    /\ pc \in AfterCompressPcs =>
         compressAttempts = {agdaBinNames[i] : i \in 1..Len(agdaBinNames)}
    /\ thrown # "upx failed"

\* C10: a compression failure is never fatal: when compressing one executable
\* fails, the executables after it are not compressed any more (the catch
\* block is around the whole loop), and upload goes on to the bundle, test
\* and publish stages without raising.
C10_CompressionFailureNotFatal ==
  \A i \in FailedCompressions :
    /\ pc \in AfterCompressPcs
    /\ thrown # "upx failed"
    /\ compressAttempts = {agdaBinNames[j] : j \in 1..i}
    /\ compressed = {agdaBinNames[j] : j \in 1..(i - 1)}
    /\ InLog(afterCompress(options))

C10_Witness ==
  /\ 1 \in FailedCompressions
  /\ pc = "upload:returned"
  /\ compressAttempts = {agdaBinNames[1]}

\* the responses of the artifact upload that report failed items
PartialUploads ==
  {i \in 1..Len(log) :
     log[i].op = "uploadArtifact:resolved" /\ Len(log[i].failedItems) > 0}

\* C11: the artifact upload is called with the name rendered from the
\* resolved bdist-name template and a retention of 90 days; when it reports
\* failed items, upload reports them with core.error, raises no error, and
\* returns the artifact name the collaborator reported.
C11_PartialUploadNotFatal ==
  /\ \A i \in 1..Len(log) :
       log[i].op = "uploadArtifact" =>
         /\ log[i].arg = mustacheRender(options["bdist-name"], 1, options)
         /\ log[i].retentionDays = 90
  /\ \A i \in PartialUploads :
       /\ pc = "upload:returned"
       /\ thrown = NoError
       /\ result = log[i].arg
       /\ i < Len(log) /\ log[i + 1].op = "error"
       /\ log[i + 1].arg = <<"Failed to upload:">> \o log[i].failedItems

C11_Witness ==
  /\ PartialUploads # {}
  /\ pc = "upload:returned"
  /\ options["bdist-name"] # <<>>
  /\ result = <<"a", "g", "d", "a", "-", "2", ".", "6", ".", "4", "-", "d", "a", "r", "w", "i", "n">>

\* C12: getOptions is idempotent: called again with the option and flag
\* values of the record it returned, it returns again, with an equal record
\* (the same option strings, bdist-name included, the same flag booleans,
\* the same empty lists).
C12_GetOptionsIdempotent ==
  [][optPc = "fed" => (optPc' = "returned" /\ thrown' = NoError /\ options' = options)]_vars

C12_Witness ==
  /\ optPc = "returned"
  /\ inputs = asInputs(options)
  /\ options["bdist-name"] = <<"m", "y", "a", "g", "d", "a">>
  /\ options["force-build"]

\* the asynchronous operations upload has started and that have not finished
InFlight ==
  Cardinality(fsPending)
    + (IF pc \in {"upload:cp", "upload:cpR", "upload:setupUpx", "upload:compressBin",
                  "upload:icu.bundle", "upload:agdaTest", "upload:glob",
                  "upload:uploadArtifact"} THEN 1 ELSE 0)

\* C13: the asynchronous steps of upload run strictly in sequence: at most
\* one is in flight, and while a copy of an executable (cp) is running, the
\* creation of the distribution directory and of its bin subdirectory
\* (mkdirP) is not pending any more.
C13_StepsStrictlySequential ==
  /\ InFlight <= 1
  /\ pc = "upload:cp" => (fsPending = {} /\ {bdistDir, bdistBinDir} \subseteq fsDirs)

=============================================================================
